---- MODULE Spec2Model ----
(***************************************************************************)
(* The send-quote endpoint (src/api/send-quote.js): one serverless         *)
(* handler that authenticates an administrator, loads a quote and its      *)
(* line items, renders a PDF, mails it through the delivery provider and   *)
(* marks the quote as Sent.                                                *)
(*                                                                         *)
(* Every `await` of the handler is one action: the synchronous code that   *)
(* follows the awaited call up to the next await (or to the response) is   *)
(* part of that action.  The collaborators (identity service, data store,  *)
(* asset origin, PDF renderer, mail provider) answer nondeterministically: *)
(* "ok", a returned error ("err", the {data, error} convention of the      *)
(* store client) or a rejected promise ("throw").                          *)
(*                                                                         *)
(* JavaScript values: a string that the code takes apart is a sequence of  *)
(* pieces (<<>> is the empty string); an object is a record whose absent   *)
(* keys are absent fields; a body value is a text: "true" and "false" are  *)
(* the booleans, "" the empty string, any other text a non-empty string.   *)
(***************************************************************************)
EXTENDS Integers, Sequences, FiniteSets, TLC

\* The number of requests the endpoint receives in one behaviour.
MaxCalls == 2

\* The handler invocations that can be in flight.
Invs == {1, 2}

VARIABLES
  env,       \* process.env, read once at module load (lines 10-15, 26)
  now,       \* the wall clock read by new Date() (line 118)
  calls,     \* requests received so far
  profiles,  \* table "profiles"
  quotes,    \* table "quotes": internal key -> row
  items,     \* table "quote_items"
  outbox,    \* messages the mail provider accepted, in order
  pc,        \* per invocation: the await it is suspended at
  req,       \* per invocation: the request
  loc,       \* per invocation: the handler's local constants
  log,       \* per invocation: collaborator calls made, in order
  resp       \* per invocation: responses written, in order

vars == <<env, now, calls, profiles, quotes, items, outbox, pc, req, loc, log, resp>>

store == <<profiles, quotes, items>>

(***************************************************************************)
(* JavaScript helpers                                                      *)
(***************************************************************************)
Has(obj, k) == k \in DOMAIN obj

\* !obj.k for a string-valued key: undefined and "" are falsy
FalsyStr(obj, k) == ~Has(obj, k) \/ obj[k] = <<>>

\* truthiness of a body value
Truthy(v) == v \notin {"undefined", "null", "false", "0", ""}

\* Boolean(v) left out: the value goes into the response as it came
BooleanRaw(v) == v

\* Boolean(v), as the JSON text of the result
Boolean(v) == IF Truthy(v) THEN "true" ELSE "false"

\* obj.k of a body record, "undefined" when the key is absent
Get(obj, k) == IF Has(obj, k) THEN obj[k] ELSE "undefined"

RECURSIVE ReplaceFirst(_, _)
\* s.replace(piece, ""): the first occurrence of the piece is removed
ReplaceFirst(s, piece) ==
  IF s = <<>> THEN <<>>
  ELSE IF Head(s) = piece THEN Tail(s)
  ELSE <<Head(s)>> \o ReplaceFirst(Tail(s), piece)

\* s.replace(/\/$/, ""): one trailing slash is removed
StripTrailingSlash(s) ==
  IF s # <<>> /\ s[Len(s)] = "/" THEN SubSeq(s, 1, Len(s) - 1) ELSE s

(***************************************************************************)
(* Module-level configuration (lines 10-15)                                *)
(***************************************************************************)
mailjetKey == IF Has(env, "MAILJET_API_KEY") THEN env.MAILJET_API_KEY ELSE <<>>
mailjetSecret == IF Has(env, "MAILJET_API_SECRET") THEN env.MAILJET_API_SECRET ELSE <<>>
mailjetFromEmail == IF Has(env, "MAILJET_FROM_EMAIL") THEN env.MAILJET_FROM_EMAIL ELSE <<>>
mailjetFromName ==
  IF Has(env, "MAILJET_FROM_NAME") THEN env.MAILJET_FROM_NAME
  ELSE <<"Continuate IT Services">>

\* line 91 without its test of the sender address
MailjetConfiguredKeyOnly == ~(mailjetKey = <<>> \/ mailjetSecret = <<>>)

\* the guard of line 91 negated: all three delivery settings are truthy
MailjetConfigured ==
  ~(mailjetKey = <<>> \/ mailjetSecret = <<>> \/ mailjetFromEmail = <<>>)

\* getBaseUrl(req), lines 25-31
getBaseUrl(r) ==
  IF ~FalsyStr(env, "APP_BASE_URL") THEN StripTrailingSlash(env.APP_BASE_URL)
  ELSE IF FalsyStr(r.headers, "host") THEN <<>>
  ELSE <<"https://">> \o r.headers.host

(***************************************************************************)
(* The world the handler runs in                                           *)
(***************************************************************************)
NoFields == [k \in {} |-> k]   \* the object {}

\* Deployments: the environment variables the module reads at load time.
Envs ==
  { [MAILJET_API_KEY |-> <<"key">>, MAILJET_API_SECRET |-> <<"secret">>,
     MAILJET_FROM_EMAIL |-> <<"sales@continuate">>, APP_BASE_URL |-> <<"https://app", "/">>],
    [MAILJET_API_KEY |-> <<"key">>, MAILJET_API_SECRET |-> <<"secret">>,
     MAILJET_FROM_EMAIL |-> <<"sales@continuate">>, MAILJET_FROM_NAME |-> <<"Sales">>],
    [MAILJET_API_SECRET |-> <<"secret">>, MAILJET_FROM_EMAIL |-> <<"sales@continuate">>,
     APP_BASE_URL |-> <<"https://app">>],
    [MAILJET_API_KEY |-> <<"key">>, MAILJET_FROM_EMAIL |-> <<"sales@continuate">>],
    [MAILJET_API_KEY |-> <<"key">>, MAILJET_API_SECRET |-> <<"secret">>,
     MAILJET_FROM_EMAIL |-> <<>>] }

\* The identity service: the access tokens it resolves, and to which user.
Sessions == [tA |-> "uA", tU |-> "uU", tN |-> "uN"]

\* Table "profiles": uA is an administrator, uU is not, uN has no profile.
InitProfiles ==
  { [auth_user_id |-> "uA", role |-> "admin"],
    [auth_user_id |-> "uU", role |-> "user"] }

\* Table "quotes": Q1 and Q2 are unique public ids, Q3 is carried by two rows.
\* A null column is <<>>, a value v is <<v>>.
QuoteRow(id, pub, st, at, cname, sla) ==
  [id |-> id, public_id |-> pub, status |-> st, sent_at |-> at, name |-> "Managed IT",
   customer |-> "Acme", contact_name |-> cname, contact_email |-> "it@acme",
   sla_url |-> sla]

InitStatuses == {"Draft", "Sent"}

InitQuotes(st) ==
  { QuoteRow("k1", "Q1", st, IF st = "Sent" THEN <<0>> ELSE <<>>, <<"Ann">>, <<>>),
    QuoteRow("k2", "Q2", "Accepted", <<>>, <<>>, <<<<"https://sla">>>>),
    QuoteRow("k3", "Q3", "Draft", <<>>, <<>>, <<>>),
    QuoteRow("k4", "Q3", "Draft", <<>>, <<>>, <<>>) }

\* Table "quote_items": k1 has two line items, the other quotes none.
InitItems ==
  { [id |-> "i1", quote_id |-> "k1"], [id |-> "i2", quote_id |-> "k1"] }

\* Requests.
Methods == {"POST", "GET"}
AuthValues ==
  { <<>>, <<"Bearer ", "tA">>, <<"tA">>, <<"Bearer ", "tU">>, <<"Bearer ", "tN">>,
    <<"Bearer ", "tX">> }
Host == <<"quotes.example">>
QuoteIdValues == {"", "Q1", "Q2", "Q3", "Q9"}
DryRunValues == {"true", "false", "no"}
\* req.body: <<>> when the request has none, <<object>> otherwise
Bodies ==
  { <<>>, <<NoFields>> } \cup {<<[quoteId |-> q]>> : q \in QuoteIdValues}
    \cup {<<[dryRun |-> d]>> : d \in DryRunValues}
    \cup {<<[quoteId |-> q, dryRun |-> d]>> : q \in QuoteIdValues, d \in DryRunValues}
\* Every method and credential with and without a quoteId, and every body
\* (with and without a Host header) under the administrator's credential.
Requests ==
  [method : Methods,
   headers : {[host |-> Host]} \cup {[authorization |-> a, host |-> Host] : a \in AuthValues},
   body : {<<>>, <<[quoteId |-> "Q1"]>>}]
  \cup
  [method : {"POST"},
   headers : {[authorization |-> <<"Bearer ", "tA">>, host |-> Host],
              [authorization |-> <<"Bearer ", "tA">>]},
   body : Bodies]

\* An error value: whether it is an instance of Error, and its message.
StoreErrors == { [isError |-> b, message |-> "store failure"] : b \in BOOLEAN }
Thrown == { [isError |-> TRUE, message |-> "boom"], [isError |-> FALSE, message |-> "" ] }

(***************************************************************************)
(* The store client's query shapes                                         *)
(***************************************************************************)
\* .single() taken for .limit(1).single(): of several rows the first is returned
singleFirst(rows) ==
  IF Cardinality(rows) >= 1
    THEN [data |-> <<CHOOSE r \in rows : TRUE>>, error |-> <<>>]
    ELSE [data |-> <<>>, error |-> <<[isError |-> TRUE, message |-> "PGRST116"]>>]

\* .single(): exactly one row, or an error
single(rows) ==
  IF Cardinality(rows) = 1
    THEN [data |-> <<CHOOSE r \in rows : TRUE>>, error |-> <<>>]
    ELSE [data |-> <<>>, error |-> <<[isError |-> TRUE, message |-> "PGRST116"]>>]

\* .maybeSingle(): one row or none, an error when several match
maybeSingle(rows) ==
  IF Cardinality(rows) = 0 THEN [data |-> <<>>, error |-> <<>>]
  ELSE single(rows)

\* a query that the store failed to answer
failed(e) == [data |-> <<>>, error |-> <<e>>]

(***************************************************************************)
(* Initial state                                                           *)
(***************************************************************************)
NoReq == [method |-> "", headers |-> NoFields, body |-> <<>>]
NoLoc ==
  [authUser |-> <<>>, profile |-> <<>>, quote |-> <<>>, items |-> <<>>,
   appBaseUrl |-> <<>>, acceptUrl |-> <<>>, slaUrl |-> <<>>,
   logoDark |-> <<>>, logoLight |-> <<>>, pdf |-> <<>>]

Init ==
  /\ env \in Envs
  /\ now = 1
  /\ calls = 0
  /\ profiles = InitProfiles
  /\ \E st \in InitStatuses : quotes = InitQuotes(st)
  /\ items = InitItems
  /\ outbox = <<>>
  /\ pc = [i \in Invs |-> "idle"]
  /\ req = [i \in Invs |-> NoReq]
  /\ loc = [i \in Invs |-> NoLoc]
  /\ log = [i \in Invs |-> <<>>]
  /\ resp = [i \in Invs |-> <<>>]

(***************************************************************************)
(* Responding                                                              *)
(***************************************************************************)
\* res.status(code).json(body), with the headers set before it
Response(code, hdrs, body) == [status |-> code, headers |-> hdrs, body |-> body]

\* the catch block, lines 123-126
catch(error) ==
  Response(500, NoFields,
           [error |-> IF error.isError THEN error.message ELSE "Failed to send quote."])

\* invocation i made collaborator call op, which ended as res
Logged(i, op, res) == log' = [log EXCEPT ![i] = Append(@, [op |-> op, res |-> res])]

\* invocation i returns the response r
Return(i, r) ==
  /\ resp' = [resp EXCEPT ![i] = Append(@, r)]
  /\ pc' = [pc EXCEPT ![i] = "done"]

\* invocation i goes on to its next await
Goto(i, label) ==
  /\ pc' = [pc EXCEPT ![i] = label]
  /\ UNCHANGED resp

(***************************************************************************)
(* The handler, lines 45-127                                               *)
(***************************************************************************)
\* const { quoteId, dryRun } = req.body ?? {}   (line 68)
bodyOf(r) == IF r.body = <<>> THEN NoFields ELSE r.body[1]
quoteId(i) == Get(bodyOf(req[i]), "quoteId")
dryRun(i) == Get(bodyOf(req[i]), "dryRun")

\* line 69 without its test
quoteIdMissingNever(i) == FALSE

\* !quoteId (line 69)
quoteIdMissing(i) == ~Truthy(quoteId(i))

\* line 95 without its test: delivery also runs for a dry run
notDryRunAlways(i) == TRUE

\* !dryRun (line 95)
notDryRun(i) == ~Truthy(dryRun(i))

\* line 53 testing for undefined only: an empty header goes on
missingAuthorizationUndefined(r) == ~Has(r.headers, "authorization")

\* !authHeader (line 53)
missingAuthorization(r) == FalsyStr(r.headers, "authorization")

\* line 66 with a missing profile let through
notAdminProfileOnly(profile) == profile # <<>> /\ profile[1].role # "admin"

\* profile?.role !== "admin" (line 66)
notAdmin(profile) == profile = <<>> \/ profile[1].role # "admin"

\* The outcome of an awaited store query: its answer, or a returned error.
Answers(answer) == {answer} \cup {failed(e) : e \in StoreErrors}

\* what the log keeps of a returned {data, error}
Res(r) == IF r.error = <<>> THEN "ok" ELSE r.error[1].message

\* A request arrives, later than the one before it (the clock has advanced);
\* lines 46-54 run up to the first await.  The invocation's locals, its log
\* and its response start afresh.
Arrive(i, from) ==
  /\ pc[i] \in {"idle", "done"}
  /\ calls < MaxCalls
  /\ calls' = calls + 1
  /\ now' = now + 1
  /\ \E r \in from :
       /\ req' = [req EXCEPT ![i] = r]
       /\ IF r.method # "POST"
            THEN /\ resp' = [resp EXCEPT ![i] =
                       <<Response(405, [Allow |-> "POST"], [error |-> "Method not allowed"])>>]
                 /\ pc' = [pc EXCEPT ![i] = "done"]
          ELSE IF missingAuthorization(r)
            THEN /\ resp' = [resp EXCEPT ![i] =
                       <<Response(401, NoFields, [error |-> "Missing Authorization header"])>>]
                 /\ pc' = [pc EXCEPT ![i] = "done"]
          ELSE /\ resp' = [resp EXCEPT ![i] = <<>>]
               /\ pc' = [pc EXCEPT ![i] = "getUser"]
  /\ loc' = [loc EXCEPT ![i] = NoLoc]
  /\ log' = [log EXCEPT ![i] = <<>>]
  /\ UNCHANGED <<env, store, outbox>>

\* any request arrives
Receive(i) == Arrive(i, Requests)

\* what the identity service answers for a token
getUser(token) ==
  IF Len(token) = 1 /\ token[1] \in DOMAIN Sessions
    THEN [data |-> <<[user |-> <<[id |-> Sessions[token[1]]]>>]>>, error |-> <<>>]
    ELSE [data |-> <<[user |-> <<>>]>>,
          error |-> <<[isError |-> TRUE, message |-> "invalid JWT"]>>]

\* lines 54-58: supabase.auth.getUser(token)
GetUser(i) ==
  /\ pc[i] = "getUser"
  /\ LET token == ReplaceFirst(req[i].headers.authorization, "Bearer ") IN
       \/ \E e \in Thrown :
            /\ Logged(i, "auth.getUser", "throw")
            /\ Return(i, catch(e))
            /\ UNCHANGED loc
       \/ \E r \in Answers(getUser(token)) :
            /\ Logged(i, "auth.getUser", Res(r))
            /\ IF r.error # <<>> \/ r.data = <<>> \/ r.data[1].user = <<>>
                 THEN /\ Return(i, Response(401, NoFields, [error |-> "Unauthorized"]))
                      /\ UNCHANGED loc
                 ELSE /\ loc' = [loc EXCEPT ![i].authUser = r.data]
                      /\ Goto(i, "profile")
  /\ UNCHANGED <<env, now, calls, store, outbox, req>>

\* GetProfile with the body's quoteId tested before the role
GetProfileBodyFirst(i) ==
  /\ pc[i] = "profile"
  /\ LET rows == {p \in profiles : p.auth_user_id = loc[i].authUser[1].user[1].id} IN
       \/ \E e \in Thrown :
            /\ Logged(i, "profiles.select", "throw")
            /\ Return(i, catch(e))
            /\ UNCHANGED loc
       \/ \E r \in Answers(maybeSingle({[role |-> p.role] : p \in rows})) :
            /\ Logged(i, "profiles.select", Res(r))
            /\ IF r.error # <<>>
                 THEN /\ Return(i, catch(r.error[1]))
                      /\ UNCHANGED loc
               ELSE IF quoteIdMissing(i)
                 THEN /\ Return(i, Response(400, NoFields, [error |-> "quoteId is required"]))
                      /\ UNCHANGED loc
               ELSE IF notAdmin(r.data)
                 THEN /\ Return(i, Response(403, NoFields, [error |-> "Forbidden"]))
                      /\ UNCHANGED loc
               ELSE /\ loc' = [loc EXCEPT ![i].profile = r.data]
                    /\ Goto(i, "quote")
  /\ UNCHANGED <<env, now, calls, store, outbox, req>>

\* lines 60-69: the profile's role, then the body's quoteId
GetProfile(i) ==
  /\ pc[i] = "profile"
  /\ LET rows == {p \in profiles : p.auth_user_id = loc[i].authUser[1].user[1].id} IN
       \/ \E e \in Thrown :
            /\ Logged(i, "profiles.select", "throw")
            /\ Return(i, catch(e))
            /\ UNCHANGED loc
       \/ \E r \in Answers(maybeSingle({[role |-> p.role] : p \in rows})) :
            /\ Logged(i, "profiles.select", Res(r))
            /\ IF r.error # <<>>
                 THEN /\ Return(i, catch(r.error[1]))
                      /\ UNCHANGED loc
               ELSE IF notAdmin(r.data)
                 THEN /\ Return(i, Response(403, NoFields, [error |-> "Forbidden"]))
                      /\ UNCHANGED loc
               ELSE IF quoteIdMissing(i)
                 THEN /\ Return(i, Response(400, NoFields, [error |-> "quoteId is required"]))
                      /\ loc' = [loc EXCEPT ![i].profile = r.data]
               ELSE /\ loc' = [loc EXCEPT ![i].profile = r.data]
                    /\ Goto(i, "quote")
  /\ UNCHANGED <<env, now, calls, store, outbox, req>>

\* ReadQuote consulting the status it loaded: a quote that is already Sent is
\* answered 200 without another dispatch
ReadQuoteSkipSent(i) ==
  /\ pc[i] = "quote"
  /\ LET rows == {q \in quotes : q.public_id = quoteId(i)} IN
       \/ \E e \in Thrown :
            /\ Logged(i, "quotes.select", "throw")
            /\ Return(i, catch(e))
            /\ UNCHANGED loc
       \/ \E r \in Answers(single(rows)) :
            /\ Logged(i, "quotes.select", Res(r))
            /\ IF r.error # <<>> \/ r.data = <<>>
                 THEN /\ Return(i, Response(404, NoFields, [error |-> "Quote not found"]))
                      /\ UNCHANGED loc
               ELSE IF r.data[1].status = "Sent"
                 THEN /\ loc' = [loc EXCEPT ![i].quote = r.data]
                      /\ Return(i, Response(200, NoFields,
                                  [ok |-> "true", dryRun |-> Boolean(dryRun(i))]))
               ELSE /\ loc' = [loc EXCEPT ![i].quote = r.data]
                    /\ Goto(i, "items")
  /\ UNCHANGED <<env, now, calls, store, outbox, req>>

\* lines 71-76: the quote with this public id
ReadQuote(i) ==
  /\ pc[i] = "quote"
  /\ LET rows == {q \in quotes : q.public_id = quoteId(i)} IN
       \/ \E e \in Thrown :
            /\ Logged(i, "quotes.select", "throw")
            /\ Return(i, catch(e))
            /\ UNCHANGED loc
       \/ \E r \in Answers(single(rows)) :
            /\ Logged(i, "quotes.select", Res(r))
            /\ IF r.error # <<>> \/ r.data = <<>>
                 THEN /\ Return(i, Response(404, NoFields, [error |-> "Quote not found"]))
                      /\ UNCHANGED loc
                 ELSE /\ loc' = [loc EXCEPT ![i].quote = r.data]
                      /\ Goto(i, "items")
  /\ UNCHANGED <<env, now, calls, store, outbox, req>>

\* line 85
acceptUrl(appBaseUrl, quote) ==
  IF appBaseUrl # <<>> THEN appBaseUrl \o <<"/quote/", quote.public_id, "/accept">> ELSE <<>>

\* line 86
slaUrl(appBaseUrl, quote) ==
  IF quote.sla_url # <<>> THEN quote.sla_url[1]
  ELSE IF appBaseUrl # <<>> THEN appBaseUrl \o <<"/sla/", quote.public_id>> ELSE <<>>

\* ReadItems with itemsError not looked at: a failed read counts as no items
ReadItemsUnchecked(i) ==
  /\ pc[i] = "items"
  /\ LET quote == loc[i].quote[1]
         rows == {it \in items : it.quote_id = quote.id}
         base == getBaseUrl(req[i]) IN
       \/ \E e \in Thrown :
            /\ Logged(i, "quote_items.select", "throw")
            /\ Return(i, catch(e))
            /\ UNCHANGED loc
       \/ \E r \in Answers([data |-> <<rows>>, error |-> <<>>]) :
            /\ Logged(i, "quote_items.select", Res(r))
            /\ loc' = [loc EXCEPT ![i].items = IF r.data = <<>> THEN <<{}>> ELSE r.data,
                                  ![i].appBaseUrl = base,
                                  ![i].acceptUrl = acceptUrl(base, quote),
                                  ![i].slaUrl = slaUrl(base, quote)]
            /\ Goto(i, "logoDark")
  /\ UNCHANGED <<env, now, calls, store, outbox, req>>

\* lines 78-86: the quote's line items, then the derived URLs
ReadItems(i) ==
  /\ pc[i] = "items"
  /\ LET quote == loc[i].quote[1]
         rows == {it \in items : it.quote_id = quote.id}
         base == getBaseUrl(req[i]) IN
       \/ \E e \in Thrown :
            /\ Logged(i, "quote_items.select", "throw")
            /\ Return(i, catch(e))
            /\ UNCHANGED loc
       \/ \E r \in Answers([data |-> <<rows>>, error |-> <<>>]) :
            /\ Logged(i, "quote_items.select", Res(r))
            /\ IF r.error # <<>>
                 THEN /\ Return(i, catch(r.error[1]))
                      /\ UNCHANGED loc
                 ELSE /\ loc' = [loc EXCEPT ![i].items = r.data,
                                            ![i].appBaseUrl = base,
                                            ![i].acceptUrl = acceptUrl(base, quote),
                                            ![i].slaUrl = slaUrl(base, quote)]
                      /\ Goto(i, "logoDark")
  /\ UNCHANGED <<env, now, calls, store, outbox, req>>

\* What a fetch of a same-origin asset can do.
FetchOutcomes == {"ok", "notok", "throw"}

\* loadLogo(baseUrl, path), lines 33-43, for a fetch that ends as `out`
loadLogo(baseUrl, path, out) ==
  IF baseUrl = <<>> THEN <<>>
  ELSE IF out = "throw" THEN <<>>
  ELSE IF out = "notok" THEN <<>>
  ELSE <<<<"png">> \o baseUrl \o <<path>>>>

\* LoadLogo with a fatal fetch: a network error goes to the catch block
LoadLogoFatal(i, label, path, next) ==
  /\ pc[i] = label
  /\ IF loc[i].appBaseUrl = <<>>
       THEN /\ loc' = [loc EXCEPT ![i][label] = loadLogo(<<>>, path, "ok")]
            /\ UNCHANGED log
            /\ Goto(i, next)
       ELSE \E out \in FetchOutcomes :
              /\ Logged(i, "fetch", out)
              /\ IF out = "throw"
                   THEN /\ \E e \in Thrown : Return(i, catch(e))
                        /\ UNCHANGED loc
                   ELSE /\ loc' = [loc EXCEPT ![i][label] =
                                     loadLogo(loc[i].appBaseUrl, path, out)]
                        /\ Goto(i, next)
  /\ UNCHANGED <<env, now, calls, store, outbox, req>>

\* one `await loadLogo(appBaseUrl, path)`: no fetch is made without a base URL
LoadLogo(i, label, path, next) ==
  /\ pc[i] = label
  /\ IF loc[i].appBaseUrl = <<>>
       THEN /\ loc' = [loc EXCEPT ![i][label] = loadLogo(<<>>, path, "ok")]
            /\ UNCHANGED log
       ELSE \E out \in FetchOutcomes :
              /\ loc' = [loc EXCEPT ![i][label] = loadLogo(loc[i].appBaseUrl, path, out)]
              /\ Logged(i, "fetch", out)
  /\ Goto(i, next)
  /\ UNCHANGED <<env, now, calls, store, outbox, req>>

\* line 87 going straight on to the render, without the fetch of line 88
LoadLogoDarkOnly(i) == LoadLogo(i, "logoDark", "/logo-dark.png", "buildPdf")

\* line 87
LoadLogoDark(i) == LoadLogo(i, "logoDark", "/logo-dark.png", "logoLight")

\* line 88
LoadLogoLight(i) == LoadLogo(i, "logoLight", "/logo-light.png", "buildPdf")

\* the renderer (./_pdf.js): the document it returns for an input
buildPdf(input) ==
  <<"pdf", input.quote.public_id, Cardinality(input.items),
    input.logoDark # <<>>, input.logoLight # <<>>>>

\* the argument of buildPdf (line 89)
RenderInput(i) ==
  [quote |-> loc[i].quote[1], items |-> loc[i].items[1],
   acceptUrl |-> loc[i].acceptUrl, slaUrl |-> loc[i].slaUrl,
   logoDark |-> loc[i].logoDark, logoLight |-> loc[i].logoLight]

\* lines 89-95 and 122 once the renderer has returned doc: the two ways out
\* that need no delivery, or on to the dispatch
Rendered(i, doc) ==
  /\ loc' = [loc EXCEPT ![i].pdf = <<doc>>]
  /\ IF ~MailjetConfigured
       THEN Return(i, Response(200, NoFields,
                               [ok |-> "true", warning |-> "Mailjet not configured."]))
     ELSE IF notDryRun(i)
       THEN Goto(i, "send")
     ELSE Return(i, Response(200, NoFields,
                             [ok |-> "true", dryRun |-> Boolean(dryRun(i))]))

\* BuildPdf with the renderer's rejection swallowed: the handler goes on with
\* an empty document
BuildPdfSwallowed(i) ==
  /\ pc[i] = "buildPdf"
  /\ \/ /\ Logged(i, "buildPdf", "throw")
        /\ Rendered(i, <<>>)
     \/ /\ Logged(i, "buildPdf", "ok")
        /\ Rendered(i, buildPdf(RenderInput(i)))
  /\ UNCHANGED <<env, now, calls, store, outbox, req>>

\* BuildPdf with a renderer failure that is never settled: the handler stays
\* at its await and no response is written
BuildPdfHangs(i) ==
  /\ pc[i] = "buildPdf"
  /\ \/ /\ Logged(i, "buildPdf", "throw")
        /\ Goto(i, "hung")
        /\ UNCHANGED loc
     \/ /\ Logged(i, "buildPdf", "ok")
        /\ Rendered(i, buildPdf(RenderInput(i)))
  /\ UNCHANGED <<env, now, calls, store, outbox, req>>

\* lines 89-95 and 122: render, then the configuration and dry-run tests
BuildPdf(i) ==
  /\ pc[i] = "buildPdf"
  /\ \/ \E e \in Thrown :
          /\ Logged(i, "buildPdf", "throw")
          /\ Return(i, catch(e))
          /\ UNCHANGED loc
     \/ /\ Logged(i, "buildPdf", "ok")
        /\ Rendered(i, buildPdf(RenderInput(i)))
  /\ UNCHANGED <<env, now, calls, store, outbox, req>>

\* quote.contact_name ?? quote.customer
contactName(quote) ==
  IF quote.contact_name # <<>> THEN quote.contact_name[1] ELSE quote.customer

\* the message of lines 98-113
Message(i) ==
  LET quote == loc[i].quote[1] IN
  [From |-> [Email |-> mailjetFromEmail, Name |-> mailjetFromName],
   To |-> <<[Email |-> quote.contact_email, Name |-> contactName(quote)]>>,
   Subject |-> <<"Your Continuate Proposal - ", quote.name>>,
   TextPart |-> <<"Hi ", contactName(quote), "Your proposal is ready: ">> \o loc[i].acceptUrl,
   HTMLPart |-> <<"Hi ", contactName(quote), "href=">> \o loc[i].acceptUrl,
   Attachments |->
     <<[ContentType |-> "application/pdf",
        Filename |-> <<"Continuate-Quote-", quote.public_id, ".pdf">>,
        Base64Content |-> <<"base64">> \o loc[i].pdf[1]]>>]

\* what the provider keeps of a message it accepted
Delivered(m) ==
  [To |-> [k \in 1..Len(m.To) |-> m.To[k].Email],
   Attachments |-> [k \in 1..Len(m.Attachments) |-> m.Attachments[k].Filename]]

\* SendMail with the rejection swallowed: the handler goes on to the update
SendMailSwallowed(i) ==
  /\ pc[i] = "send"
  /\ \/ \E e \in Thrown :
          /\ Logged(i, "mailjet.send", "throw")
          /\ Goto(i, "update")
          /\ UNCHANGED outbox
     \/ /\ Logged(i, "mailjet.send", "ok")
        /\ outbox' = Append(outbox, Delivered(Message(i)))
        /\ Goto(i, "update")
  /\ UNCHANGED <<env, now, calls, store, req, loc>>

\* SendMail behind a guard on the quote: no second message for a quote whose
\* document the provider already holds
SendMailOnce(i) ==
  /\ pc[i] = "send"
  /\ IF \E n \in DOMAIN outbox :
          outbox[n].Attachments = Delivered(Message(i)).Attachments
       THEN /\ Goto(i, "update")
            /\ UNCHANGED <<outbox, log>>
       ELSE \/ \E e \in Thrown :
                 /\ Logged(i, "mailjet.send", "throw")
                 /\ Return(i, catch(e))
                 /\ UNCHANGED outbox
            \/ /\ Logged(i, "mailjet.send", "ok")
               /\ outbox' = Append(outbox, Delivered(Message(i)))
               /\ Goto(i, "update")
  /\ UNCHANGED <<env, now, calls, store, req, loc>>

\* SendMail with the update issued before the provider has answered: a
\* rejected request leaves the quote marked
SendMailMarkedFirst(i) ==
  /\ pc[i] = "send"
  /\ \/ \E e \in Thrown :
          /\ Logged(i, "mailjet.send", "throw")
          /\ Return(i, catch(e))
          /\ quotes' = { IF q.id = loc[i].quote[1].id
                           THEN [q EXCEPT !.status = "Sent", !.sent_at = <<now>>]
                           ELSE q : q \in quotes }
          /\ UNCHANGED outbox
     \/ /\ Logged(i, "mailjet.send", "ok")
        /\ outbox' = Append(outbox, Delivered(Message(i)))
        /\ Goto(i, "update")
        /\ UNCHANGED quotes
  /\ UNCHANGED <<env, now, calls, profiles, items, req, loc>>

\* lines 96-114: the provider accepts the message, or the request rejects
SendMail(i) ==
  /\ pc[i] = "send"
  /\ \/ \E e \in Thrown :
          /\ Logged(i, "mailjet.send", "throw")
          /\ Return(i, catch(e))
          /\ UNCHANGED outbox
     \/ /\ Logged(i, "mailjet.send", "ok")
        /\ outbox' = Append(outbox, Delivered(Message(i)))
        /\ Goto(i, "update")
  /\ UNCHANGED <<env, now, calls, store, req, loc>>

\* update without its .eq("id", id) filter: every row is written
updateNoFilter(table, id, status, at) ==
  { [q EXCEPT !.status = status, !.sent_at = <<at>>] : q \in table }

\* .update({status, sent_at}).eq("id", id) applied to the table
update(table, id, status, at) ==
  { IF q.id = id THEN [q EXCEPT !.status = status, !.sent_at = <<at>>] ELSE q : q \in table }

\* lines 116-122: the status update, whose {error} is not looked at
UpdateQuote(i) ==
  /\ pc[i] = "update"
  /\ \/ \E e \in Thrown :
          /\ Logged(i, "quotes.update", "throw")
          /\ Return(i, catch(e))
          /\ UNCHANGED quotes
     \/ \E r \in Answers([data |-> <<>>, error |-> <<>>]) :
          /\ Logged(i, "quotes.update", Res(r))
          /\ quotes' = IF r.error = <<>>
                         THEN update(quotes, loc[i].quote[1].id, "Sent", now)
                         ELSE quotes
          /\ Return(i, Response(200, NoFields,
                                [ok |-> "true", dryRun |-> Boolean(dryRun(i))]))
  /\ UNCHANGED <<env, now, calls, profiles, items, outbox, req, loc>>

(***************************************************************************)
(* Specification: the endpoint serves one request at a time                *)
(***************************************************************************)
Step(i) ==
  \/ Receive(i)
  \/ GetUser(i)
  \/ GetProfile(i)
  \/ ReadQuote(i)
  \/ ReadItems(i)
  \/ LoadLogoDark(i)
  \/ LoadLogoLight(i)
  \/ BuildPdf(i)
  \/ SendMail(i)
  \/ UpdateQuote(i)

\* Invocation 1 serves the requests, one after the other.
Next == Step(1)

Spec == Init /\ [][Next]_vars

(***************************************************************************)
(* Specification: every collaborator call eventually returns or throws, so *)
(* an invocation that stands at an await eventually takes its next step    *)
(***************************************************************************)
Work(i) ==
  \/ GetUser(i)
  \/ GetProfile(i)
  \/ ReadQuote(i)
  \/ ReadItems(i)
  \/ LoadLogoDark(i)
  \/ LoadLogoLight(i)
  \/ BuildPdf(i)
  \/ SendMail(i)
  \/ UpdateQuote(i)

\* the requests of the settling specification: every method and credential,
\* with no body, with a quote that exists, with one that does not, and as a
\* dry run
SettlingRequests ==
  {r \in Requests :
     /\ Has(r.headers, "host")
     /\ r.body \in {<<>>, <<[quoteId |-> "Q1"]>>, <<[quoteId |-> "Q9"]>>,
                    <<[quoteId |-> "Q1", dryRun |-> "true"]>>}}

ReceiveSettling(i) == Arrive(i, SettlingRequests)

NextSettling == ReceiveSettling(1) \/ Work(1)

SpecSettling == Init /\ [][NextSettling]_vars /\ WF_vars(Work(1))

(***************************************************************************)
(* Specification: two invocations in flight at once.  The platform runs    *)
(* the handler for each request on its own; the invocations share the      *)
(* store and the provider only.  The requests are the administrator's, for *)
(* the quotes Q1 and Q2, dry runs or not, under a deployment with delivery *)
(* configured and no asset origin.                                         *)
(***************************************************************************)
ConcurrentRequests ==
  [method : {"POST"},
   headers : {[authorization |-> <<"Bearer ", "tA">>]},
   body : {<<[quoteId |-> "Q1"]>>, <<[quoteId |-> "Q2"]>>,
           <<[quoteId |-> "Q1", dryRun |-> "true"]>>}]

ConcurrentEnvs == {e \in Envs : ~FalsyStr(e, "MAILJET_API_KEY")
                                 /\ ~FalsyStr(e, "MAILJET_API_SECRET")
                                 /\ ~FalsyStr(e, "MAILJET_FROM_EMAIL")
                                 /\ FalsyStr(e, "APP_BASE_URL")}

InitConcurrent == Init /\ env \in ConcurrentEnvs

\* one of the administrator's requests arrives
ReceiveConcurrent(i) == Arrive(i, ConcurrentRequests)

StepConcurrent(i) ==
  \/ ReceiveConcurrent(i)
  \/ GetUser(i)
  \/ GetProfile(i)
  \/ ReadQuote(i)
  \/ ReadItems(i)
  \/ LoadLogoDark(i)
  \/ LoadLogoLight(i)
  \/ BuildPdf(i)
  \/ SendMail(i)
  \/ UpdateQuote(i)

NextConcurrent == \E i \in Invs : StepConcurrent(i)

SpecConcurrent == InitConcurrent /\ [][NextConcurrent]_vars

(***************************************************************************)
(* Vocabulary of the properties                                            *)
(***************************************************************************)
Done(i) == pc[i] = "done" /\ Len(resp[i]) = 1
Status(i) == resp[i][1].status
Body(i) == resp[i][1].body

\* the collaborator calls invocation i has made
Called(i, op) == \E k \in DOMAIN log[i] : log[i][k].op = op
Count(i, op) == Cardinality({k \in DOMAIN log[i] : log[i][k].op = op})
Succeeded(i, op) == \E k \in DOMAIN log[i] : log[i][k] = [op |-> op, res |-> "ok"]
LastCall(i, op, res) == log[i] # <<>> /\ log[i][Len(log[i])] = [op |-> op, res |-> res]

\* line 91 read off the environment
DeliveryConfigured ==
  /\ ~FalsyStr(env, "MAILJET_API_KEY")
  /\ ~FalsyStr(env, "MAILJET_API_SECRET")
  /\ ~FalsyStr(env, "MAILJET_FROM_EMAIL")

\* the row of table `table` with internal key id
Row(table, id) == CHOOSE q \in table : q.id = id

\* the step is one of invocation i
StepOf(i) == pc'[i] # pc[i] \/ log'[i] # log[i] \/ resp'[i] # resp[i] \/ req'[i] # req[i]

(***************************************************************************)
(* Properties                                                              *)
(***************************************************************************)
\* C1: a quote row is written with status Sent (and a non-null sent_at) only
\* by an invocation suspended at its status update whose last collaborator
\* call was a mail dispatch that succeeded, that loaded this very row, that
\* is not a dry run and that runs with delivery configured.
SentOnlyAfterDispatch ==
  [][\A q \in quotes' :
       (q \notin quotes /\ q.status = "Sent") =>
         /\ q.sent_at # <<>>
         /\ \E i \in Invs :
              /\ pc[i] = "update" /\ pc'[i] = "done"
              /\ loc[i].quote[1].id = q.id
              /\ LastCall(i, "mailjet.send", "ok")
              /\ Count(i, "mailjet.send") = 1
              /\ ~Truthy(dryRun(i))
              /\ DeliveryConfigured
              /\ Status(i)' = 200]_vars

\* C1 witness: an invocation has marked quote k1 as Sent at the current time.
SentAfterDispatchReached ==
  \E i \in Invs :
    /\ Done(i)
    /\ LastCall(i, "quotes.update", "ok")
    /\ Succeeded(i, "mailjet.send")
    /\ Row(quotes, "k1").status = "Sent"
    /\ Row(quotes, "k1").sent_at = <<now>>

\* C2 (as claimed): a call answered 200 {ok: true, dryRun: false} has left
\* the quote it loaded with status Sent and a non-null sent_at, and has made
\* exactly one provider call, whose message carries exactly one attachment.
SuccessfulSendMarksSent ==
  \A i \in Invs :
    (Done(i) /\ Status(i) = 200 /\ Body(i) = [ok |-> "true", dryRun |-> "false"]) =>
      /\ loc[i].quote # <<>>
      /\ Row(quotes, loc[i].quote[1].id).status = "Sent"
      /\ Row(quotes, loc[i].quote[1].id).sent_at # <<>>
      /\ Count(i, "mailjet.send") = 1
      /\ Succeeded(i, "mailjet.send")
      /\ outbox # <<>>
      /\ Len(outbox[Len(outbox)].Attachments) = 1

\* C3 (as claimed): when the dispatch succeeded and the status update then
\* failed in the store, the call is answered 500 and the quote's row is the
\* one the invocation loaded.
UpdateFailureIs500 ==
  \A i \in Invs :
    (/\ Done(i)
     /\ Succeeded(i, "mailjet.send")
     /\ Called(i, "quotes.update")
     /\ ~Succeeded(i, "quotes.update")) =>
      /\ Status(i) = 500
      /\ Row(quotes, loc[i].quote[1].id) = loc[i].quote[1]

\* C4: no step of an invocation whose request has a truthy dryRun changes the
\* quotes table or the provider's outbox, and such an invocation never calls
\* the provider or issues the status update.
DryRunTouchesNothing ==
  [][\A i \in Invs :
       (StepOf(i) /\ Truthy(Get(bodyOf(req'[i]), "dryRun"))) =>
         /\ quotes' = quotes
         /\ outbox' = outbox
         /\ \A k \in DOMAIN log'[i] : log'[i][k].op \notin {"mailjet.send", "quotes.update"}]_vars

\* C4 witness: a dry run of an existing quote ran to its 200 with delivery
\* configured.
DryRunCompleted ==
  \E i \in Invs :
    /\ Done(i)
    /\ dryRun(i) = "true"
    /\ Succeeded(i, "quotes.select")
    /\ Succeeded(i, "buildPdf")
    /\ DeliveryConfigured
    /\ Status(i) = 200

\* C5 (as claimed): every dry run whose document rendered is answered 200
\* {ok: true, dryRun: true}, whether or not delivery is configured.
DryRunAlwaysReportsDryRun ==
  \A i \in Invs :
    (Done(i) /\ dryRun(i) = "true" /\ Succeeded(i, "buildPdf")) =>
      /\ Status(i) = 200
      /\ Body(i) = [ok |-> "true", dryRun |-> "true"]

\* C5 (amended): an invocation with a truthy dryRun whose document rendered
\* has answered 200 with ok: true; the body reports dryRun: true when delivery
\* is configured, and the warning marker with no dryRun key when it is not.
DryRunReport ==
  \A i \in Invs :
    (Truthy(dryRun(i)) /\ Succeeded(i, "buildPdf")) =>
      /\ Done(i)
      /\ Status(i) = 200
      /\ Body(i) = IF DeliveryConfigured
                     THEN [ok |-> "true", dryRun |-> "true"]
                     ELSE [ok |-> "true", warning |-> "Mailjet not configured."]

\* C5 witness: a dry run with a non-boolean truthy dryRun was answered
\* {ok: true, dryRun: true} under configured delivery.
DryRunReported ==
  \E i \in Invs :
    /\ Done(i)
    /\ dryRun(i) = "no"
    /\ Succeeded(i, "buildPdf")
    /\ DeliveryConfigured
    /\ Body(i) = [ok |-> "true", dryRun |-> "true"]

\* C6: with delivery unconfigured the quotes table keeps its initial rows and
\* the provider's outbox stays empty, and every invocation whose document
\* rendered has answered 200 {ok: true, warning} without calling the provider
\* or issuing the status update, whatever its dryRun.
UnconfiguredDeliveryWarns ==
  ~DeliveryConfigured =>
    /\ outbox = <<>>
    /\ \E st \in InitStatuses : quotes = InitQuotes(st)
    /\ \A i \in Invs :
         Succeeded(i, "buildPdf") =>
           /\ Done(i)
           /\ Status(i) = 200
           /\ Body(i) = [ok |-> "true", warning |-> "Mailjet not configured."]
           /\ ~Called(i, "mailjet.send")
           /\ ~Called(i, "quotes.update")

\* C6 witness: a call that is not a dry run reached the delivery step with
\* only the sender address missing, and was answered with the warning.
UnconfiguredWarned ==
  \E i \in Invs :
    /\ ~FalsyStr(env, "MAILJET_API_KEY")
    /\ ~FalsyStr(env, "MAILJET_API_SECRET")
    /\ FalsyStr(env, "MAILJET_FROM_EMAIL")
    /\ Done(i)
    /\ Succeeded(i, "buildPdf")
    /\ ~Truthy(dryRun(i))
    /\ Has(Body(i), "warning")

\* the profiles table gives user u no administrator's profile
NonAdmin(u) == ~\E p \in profiles : p.auth_user_id = u /\ p.role = "admin"

\* the calls of invocation i, in order, all answered without error
AnsweredOk(i, ops) ==
  /\ Len(log[i]) = Len(ops)
  /\ \A k \in DOMAIN log[i] : log[i][k] = [op |-> ops[k], res |-> "ok"]

\* C7 (as claimed): a call answered 400 for its missing quoteId has made no
\* downstream call of any kind.
MissingQuoteIdNoCalls ==
  \A i \in Invs :
    (Done(i) /\ ~Truthy(quoteId(i)) /\ Status(i) = 400) => log[i] = <<>>

\* C7 (amended): an invocation whose body has no (or an empty) quoteId never
\* goes beyond the profile lookup: its only collaborator calls are the
\* identity resolution and the profile lookup, and it is answered 400 exactly
\* when both answered and the profile is an administrator's.
MissingQuoteIdStopsAfterGate ==
  \A i \in Invs :
    ~Truthy(quoteId(i)) =>
      /\ pc[i] \in {"idle", "getUser", "profile", "done"}
      /\ \A k \in DOMAIN log[i] : log[i][k].op \in {"auth.getUser", "profiles.select"}
      /\ Done(i) =>
           (Status(i) = 400 <=>
              /\ AnsweredOk(i, <<"auth.getUser", "profiles.select">>)
              /\ ~NonAdmin(loc[i].authUser[1].user[1].id))

\* C7 witness: an administrator's call without quoteId was answered 400.
MissingQuoteIdRejected ==
  \E i \in Invs :
    /\ Done(i)
    /\ ~Has(bodyOf(req[i]), "quoteId")
    /\ Status(i) = 400
    /\ Len(log[i]) = 2

\* a read of the aggregate that the store failed to answer
AggregateReads == {"quotes.select", "quote_items.select"}
StoreFailed(e) == e.op \in AggregateReads /\ e.res \in {"store failure", "throw"}

NoCredentialIs401 ==
  \A i \in Invs :
    (Done(i) /\ ~Has(req[i].headers, "authorization")) =>
      /\ Status(i) = 401
      /\ log[i] = <<>>

\* C9 (amended): a request without an Authorization header (or with an empty
\* one) is answered at once, with no collaborator call and so no access to
\* the store: 401 when its method is POST, 405 otherwise.
NoCredentialNoStore ==
  \A i \in Invs :
    (pc[i] # "idle" /\ FalsyStr(req[i].headers, "authorization")) =>
      /\ Done(i)
      /\ log[i] = <<>>
      /\ Status(i) = IF req[i].method = "POST" THEN 401 ELSE 405

\* C9 witness: a POST without an Authorization header was answered 401.
NoCredentialRejected ==
  \E i \in Invs :
    /\ Done(i)
    /\ req[i].method = "POST"
    /\ ~Has(req[i].headers, "authorization")
    /\ Status(i) = 401

\* C10 (as claimed): a call whose credential resolved to an identity without
\* an administrator's profile is answered 403.
NonAdminIs403 ==
  \A i \in Invs :
    (/\ Done(i)
     /\ loc[i].authUser # <<>>
     /\ NonAdmin(loc[i].authUser[1].user[1].id)) => Status(i) = 403

\* C10 (amended): an invocation whose credential resolved to an identity
\* without an administrator's profile never goes beyond the profile lookup
\* (the quote is not read, rendered, mailed or updated); it is answered 403
\* when the lookup answers and 500 when the lookup fails.
NonAdminStopsAtGate ==
  \A i \in Invs :
    (loc[i].authUser # <<>> /\ NonAdmin(loc[i].authUser[1].user[1].id)) =>
      /\ pc[i] \in {"profile", "done"}
      /\ \A k \in DOMAIN log[i] : log[i][k].op \in {"auth.getUser", "profiles.select"}
      /\ Done(i) =>
           Status(i) = IF Succeeded(i, "profiles.select") THEN 403 ELSE 500

\* C10 witness: an identity with no profile at all was answered 403.
NoProfileForbidden ==
  \E i \in Invs :
    /\ Done(i)
    /\ loc[i].authUser # <<>>
    /\ \A p \in profiles : p.auth_user_id # loc[i].authUser[1].user[1].id
    /\ Status(i) = 403

\* the rows of the quotes table that carry the public id of invocation i's body
Matching(i) == {q \in quotes : q.public_id = quoteId(i)}

\* the stages that follow the quote read
AfterQuoteRead ==
  {"quote_items.select", "fetch", "buildPdf", "mailjet.send", "quotes.update"}

\* C11: an invocation that came to read the quote for a quoteId carried by no
\* row or by several rows makes no further call (no line-item read, render,
\* dispatch or update) and is answered 404 once the read has answered.
NoSingleQuoteIs404 ==
  \A i \in Invs :
    (Called(i, "quotes.select") /\ Cardinality(Matching(i)) # 1) =>
      /\ Done(i)
      /\ log[i][Len(log[i])].op = "quotes.select"
      /\ \A k \in DOMAIN log[i] : log[i][k].op \notin AfterQuoteRead
      /\ loc[i].quote = <<>>
      /\ ~LastCall(i, "quotes.select", "throw") => Status(i) = 404

\* C11 witness: an administrator's call for the public id that two rows carry
\* was answered 404.
DuplicateQuoteNotFound ==
  \E i \in Invs :
    /\ Done(i)
    /\ Cardinality(Matching(i)) = 2
    /\ LastCall(i, "quotes.select", "PGRST116")
    /\ Status(i) = 404

\* C12: an invocation that is at, or past, the mail dispatch holds the
\* document the renderer returned to it earlier in the same invocation, every
\* message the provider accepted carries exactly one attachment, and an
\* invocation whose renderer failed has ended with 500 without calling the
\* provider or issuing the status update.
NoMailWithoutAttachment ==
  /\ \A i \in Invs :
       /\ (pc[i] \in {"send", "update"} \/ Called(i, "mailjet.send")) =>
            /\ loc[i].pdf # <<>>
            /\ \E j \in DOMAIN log[i] :
                 log[i][j] = [op |-> "buildPdf", res |-> "ok"]
            /\ \A k \in DOMAIN log[i] :
                 log[i][k].op = "mailjet.send" =>
                   \E j \in 1..(k - 1) :
                     log[i][j] = [op |-> "buildPdf", res |-> "ok"]
       /\ LastCall(i, "buildPdf", "throw") =>
            /\ Done(i)
            /\ Status(i) = 500
            /\ ~Called(i, "mailjet.send")
            /\ ~Called(i, "quotes.update")
  /\ \A n \in DOMAIN outbox : Len(outbox[n].Attachments) = 1

\* C12 witness: a renderer failure ended a call, under configured delivery and
\* without dry run, with 500 and an empty outbox.
RenderFailureAborted ==
  \E i \in Invs :
    /\ Done(i)
    /\ LastCall(i, "buildPdf", "throw")
    /\ DeliveryConfigured
    /\ ~Truthy(dryRun(i))
    /\ Status(i) = 500
    /\ outbox = <<>>

\* the collaborator calls of a log other than the logo fetches
NoFetch(l) == SelectSeq(l, LAMBDA e : e.op # "fetch")

\* the logo fetches of invocation i that did not bring a logo
FailedFetches(i) ==
  {k \in DOMAIN log[i] : log[i][k].op = "fetch" /\ log[i][k].res # "ok"}

\* C13: once the line items are read, what an invocation does and answers is
\* a function of the request, the configuration and the results of its calls
\* other than the logo fetches. With `last` the latest such call: the
\* invocation has ended exactly when last threw, was the status update, or was
\* a render under unconfigured delivery or dry run (never because of a
\* fetch); its status is 500 with an error body when last threw and 200
\* otherwise; it dispatched one email exactly when last is the status update
\* and none otherwise; and the quote's status is Sent after a successful
\* update and the loaded one otherwise. Until then it stands at a logo fetch
\* or at the stage after last, with no response.
LogoOutcomeIrrelevant ==
  \A i \in Invs :
    Succeeded(i, "quote_items.select") =>
      LET l == NoFetch(log[i])
          last == l[Len(l)]
          ended == \/ last.res = "throw"
                   \/ last.op = "quotes.update"
                   \/ /\ last.op = "buildPdf"
                      /\ ~DeliveryConfigured \/ Truthy(dryRun(i))
          row == Row(quotes, loc[i].quote[1].id)
      IN  /\ last.op \in {"quote_items.select", "buildPdf", "mailjet.send",
                          "quotes.update"}
          /\ Done(i) <=> ended
          /\ ~ended =>
               /\ resp[i] = <<>>
               /\ last.res = "ok"
               /\ pc[i] \in CASE last.op = "quote_items.select" ->
                                   {"logoDark", "logoLight", "buildPdf"}
                              [] last.op = "buildPdf" -> {"send"}
                              [] last.op = "mailjet.send" -> {"update"}
          /\ ended =>
               /\ Status(i) = IF last.res = "throw" THEN 500 ELSE 200
               /\ Has(Body(i), "error") <=> last.res = "throw"
               /\ Count(i, "mailjet.send") =
                    IF last.op \in {"mailjet.send", "quotes.update"} THEN 1 ELSE 0
               /\ Succeeded(i, "mailjet.send") <=> last.op = "quotes.update"
               /\ row.status = IF last = [op |-> "quotes.update", res |-> "ok"]
                                 THEN "Sent"
                                 ELSE loc[i].quote[1].status

\* C13 witness: both logo fetches of a call failed, one by a network error and
\* one by a non-success response, and the call sent the email, marked the
\* quote and answered 200.
SentWithoutLogos ==
  \E i \in Invs :
    /\ Done(i)
    /\ Status(i) = 200
    /\ Cardinality(FailedFetches(i)) = 2
    /\ \E j, k \in FailedFetches(i) :
         log[i][j].res = "throw" /\ log[i][k].res = "notok"
    /\ loc[i].logoDark = <<>>
    /\ loc[i].logoLight = <<>>
    /\ LastCall(i, "quotes.update", "ok")
    /\ Row(quotes, loc[i].quote[1].id).status = "Sent"

\* the messages the provider holds for the quote invocation i loaded
SentFor(i) ==
  {n \in DOMAIN outbox :
     outbox[n].Attachments =
       <<<<"Continuate-Quote-", loc[i].quote[1].public_id, ".pdf">>>>}

\* C14: nothing stands between an invocation and its dispatch. Whatever the
\* other invocation has done, an invocation waiting at the provider request
\* can hand over one more message; an invocation that is past the request
\* without a failure has handed one over; and two invocations in that
\* position for the same quote account for two messages of that quote.
NothingPreventsDuplicateSend ==
  /\ \A i \in Invs :
       /\ pc[i] = "send" =>
            ENABLED (pc[i] = "send" /\ SendMail(i) /\ Len(outbox') = Len(outbox) + 1)
       /\ (pc[i] = "update" \/ Called(i, "quotes.update")) =>
            /\ Succeeded(i, "mailjet.send")
            /\ SentFor(i) # {}
  /\ \A i, j \in Invs :
       (/\ i # j
        /\ Succeeded(i, "mailjet.send")
        /\ Succeeded(j, "mailjet.send")
        /\ loc[i].quote[1].public_id = loc[j].quote[1].public_id) =>
         Cardinality(SentFor(i)) >= 2

\* C14 witness: two invocations for Q1 each loaded the quote before the other
\* had marked it, each dispatched an email, and each answered 200.
BothSent ==
  /\ \A i \in Invs :
       /\ Done(i)
       /\ Status(i) = 200
       /\ quoteId(i) = "Q1"
       /\ ~Truthy(dryRun(i))
       /\ loc[i].quote[1].status = "Draft"
       /\ Succeeded(i, "mailjet.send")
       /\ LastCall(i, "quotes.update", "ok")
  /\ Cardinality(SentFor(1)) = 2
  /\ Len(outbox) = 2

\* row r is row q with at most its status and sent_at written
SameButStatus(q, r) ==
  /\ DOMAIN r = DOMAIN q
  /\ \A f \in DOMAIN q \ {"status", "sent_at"} : r[f] = q[f]

\* C15: in every step of every interleaving the profiles and the line items
\* are left as they are, and the quotes change only in the step in which one
\* invocation's status update is answered without an error: that step is the
\* invocation's only update, it rewrites nothing but status and sent_at, and
\* only of the row whose internal key is that of the quote the invocation
\* loaded.
OnlyWriteIsOwnStatusUpdate ==
  [][ /\ profiles' = profiles
      /\ items' = items
      /\ \A i \in Invs :
           Cardinality({k \in DOMAIN log'[i] : log'[i][k].op = "quotes.update"}) <= 1
      /\ quotes' # quotes =>
           \E i \in Invs :
             /\ pc[i] = "update"
             /\ pc'[i] = "done"
             /\ ~Called(i, "quotes.update")
             /\ log'[i] = Append(log[i], [op |-> "quotes.update", res |-> "ok"])
             /\ Cardinality(quotes') = Cardinality(quotes)
             /\ \A q \in quotes : q.id # loc[i].quote[1].id => q \in quotes'
             /\ \A r \in quotes' \ quotes :
                  /\ r.id = loc[i].quote[1].id
                  /\ \E q \in quotes : q.id = r.id /\ SameButStatus(q, r)
    ]_vars

\* C15 witness: an invocation's update has marked its quote, whose other
\* fields are the ones it loaded, and every other row is an initial one.
OwnRowMarked ==
  \E i \in Invs :
    /\ LastCall(i, "quotes.update", "ok")
    /\ loc[i].quote[1].status = "Draft"
    /\ LET r == Row(quotes, loc[i].quote[1].id)
       IN  /\ r.status = "Sent"
           /\ r.sent_at # <<>>
           /\ SameButStatus(loc[i].quote[1], r)
    /\ \A q \in quotes :
         q.id # loc[i].quote[1].id => q \in InitQuotes("Draft")
    /\ profiles = InitProfiles
    /\ items = InitItems

\* the stages in the order of the claim: where the invocation stands before
\* the stage, and the collaborator call the stage makes
StageOrder ==
  << [at |-> "getUser",   op |-> "auth.getUser"],
     [at |-> "profile",   op |-> "profiles.select"],
     [at |-> "quote",     op |-> "quotes.select"],
     [at |-> "items",     op |-> "quote_items.select"],
     [at |-> "logoDark",  op |-> "fetch"],
     [at |-> "logoLight", op |-> "fetch"],
     [at |-> "buildPdf",  op |-> "buildPdf"],
     [at |-> "send",      op |-> "mailjet.send"],
     [at |-> "update",    op |-> "quotes.update"] >>

\* the stages before the one an invocation stands at
Before(at) == {k \in DOMAIN StageOrder : \E n \in DOMAIN StageOrder :
                                            StageOrder[n].at = at /\ k < n}

\* the calls an invocation makes for the stages K, in order: a logo stage
\* makes no call when there is no base URL to fetch from
CallsOf(i, K) ==
  LET ops == SelectSeq(StageOrder,
                       LAMBDA s : s.op # "fetch" \/ loc[i].appBaseUrl # <<>>)
      kept == Cardinality({k \in K : StageOrder[k].op # "fetch"
                                       \/ loc[i].appBaseUrl # <<>>})
  IN  [k \in 1..kept |-> ops[k].op]

\* entry e records a stage that failed (a failed logo fetch is tolerated)
StageFailed(e) == e.op # "fetch" /\ e.res # "ok"

\* C16: the calls of an invocation are, in order and each once, the calls of
\* an initial segment of the stages identity resolution, profile lookup,
\* quote read, line-item read, dark and light logo fetch, render, dispatch,
\* status update. An invocation standing at a stage has made exactly the
\* calls of all earlier stages, and every one of them other than a logo fetch
\* succeeded; a failed stage is the invocation's last call and ends it.
StagesInFixedOrder ==
  \A i \in Invs :
    /\ \E n \in 0..Len(StageOrder) :
         [k \in DOMAIN log[i] |-> log[i][k].op] = CallsOf(i, 1..n)
    /\ pc[i] \notin {"idle", "done"} =>
         /\ [k \in DOMAIN log[i] |-> log[i][k].op] = CallsOf(i, Before(pc[i]))
         /\ \A k \in DOMAIN log[i] : ~StageFailed(log[i][k])
    /\ \A k \in DOMAIN log[i] :
         StageFailed(log[i][k]) => (k = Len(log[i]) /\ Done(i))

\* C16 witness: an invocation ran all nine stages, a logo fetch among them
\* failing, and ended after the status update.
AllStagesRan ==
  \E i \in Invs :
    /\ Done(i)
    /\ [k \in DOMAIN log[i] |-> log[i][k].op] = CallsOf(i, DOMAIN StageOrder)
    /\ Len(log[i]) = Len(StageOrder)
    /\ log[i][5].res = "throw"
    /\ LastCall(i, "quotes.update", "ok")

\* C17: an invocation whose provider request rejected has ended with 500 and
\* a body that is {error: message} and nothing else, has not attempted the
\* status update, and has left the quote it loaded exactly as it loaded it.
DispatchFailureIs500 ==
  \A i \in Invs :
    (\E k \in DOMAIN log[i] : log[i][k] = [op |-> "mailjet.send", res |-> "throw"]) =>
      /\ Done(i)
      /\ Status(i) = 500
      /\ DOMAIN Body(i) = {"error"}
      /\ Body(i).error \in {"boom", "Failed to send quote."}
      /\ LastCall(i, "mailjet.send", "throw")
      /\ ~Called(i, "quotes.update")
      /\ Row(quotes, loc[i].quote[1].id) = loc[i].quote[1]

\* C17 witness: the provider request of a call for a Draft quote rejected
\* with something that is not an Error; the call was answered 500 with the
\* fallback message and the quote is still Draft and never sent.
DispatchFailed ==
  \E i \in Invs :
    /\ Done(i)
    /\ LastCall(i, "mailjet.send", "throw")
    /\ Status(i) = 500
    /\ Body(i) = [error |-> "Failed to send quote."]
    /\ Row(quotes, loc[i].quote[1].id).status = "Draft"
    /\ Row(quotes, loc[i].quote[1].id).sent_at = <<>>

\* invocation i was answered as a send that went through: 200, ok, no dry run
AnsweredSent(i) ==
  /\ Done(i)
  /\ Status(i) = 200
  /\ Body(i) = [ok |-> "true", dryRun |-> "false"]

\* invocation i loaded a quote that an earlier call had marked (the initial
\* rows are marked at time 0 or not at all)
LoadedMarkedByCall(i) ==
  /\ loc[i].quote # <<>>
  /\ loc[i].quote[1].status = "Sent"
  /\ loc[i].quote[1].sent_at # <<>>
  /\ loc[i].quote[1].sent_at[1] >= 2

\* C18: a call answered as a send has dispatched one email whatever the status
\* of the quote it loaded; when the quote had been marked by an earlier call,
\* the provider holds at least two messages for it; a provider request is
\* never withheld on account of the status or of earlier messages; and an
\* update that went through leaves the quote Sent with sent_at the time of
\* this call, later than the one it loaded.
DeliveryNotIdempotent ==
  \A i \in Invs :
    /\ AnsweredSent(i) =>
         /\ Count(i, "mailjet.send") = 1
         /\ Succeeded(i, "mailjet.send")
         /\ SentFor(i) # {}
    /\ pc[i] = "send" =>
         ENABLED (pc[i] = "send" /\ SendMail(i) /\ outbox' = Append(outbox, Delivered(Message(i))))
    /\ (Succeeded(i, "mailjet.send") /\ LoadedMarkedByCall(i)) =>
         Cardinality(SentFor(i)) >= 2
    /\ LastCall(i, "quotes.update", "ok") =>
         LET row == Row(quotes, loc[i].quote[1].id)
         IN  /\ row.status = "Sent"
             /\ row.sent_at = <<now>>
             /\ loc[i].quote[1].sent_at # <<>> => loc[i].quote[1].sent_at[1] < now

\* C18 witness: a retry. The call loaded Q1 as an earlier call had marked it
\* (Sent at time 2), dispatched a second email for it and moved sent_at to its
\* own time 3.
RetrySentAgain ==
  \E i \in Invs :
    /\ AnsweredSent(i)
    /\ LoadedMarkedByCall(i)
    /\ loc[i].quote[1].sent_at = <<2>>
    /\ LastCall(i, "quotes.update", "ok")
    /\ Cardinality(SentFor(i)) = 2
    /\ Row(quotes, loc[i].quote[1].id).sent_at = <<3>>

\* what the credential of request r resolves to: <<>> when r carries none or
\* the identity service knows no session for it
Identity(r) ==
  IF FalsyStr(r.headers, "authorization") THEN <<>>
  ELSE LET token == ReplaceFirst(r.headers.authorization, "Bearer ")
       IN  IF Len(token) = 1 /\ token[1] \in DOMAIN Sessions
             THEN <<Sessions[token[1]]>> ELSE <<>>

\* the checks request r fails, as the status each is answered with
FailingChecks(r) ==
  {s \in {405, 401, 403, 400, 404} :
     CASE s = 405 -> r.method # "POST"
       [] s = 401 -> Identity(r) = <<>>
       [] s = 403 -> Identity(r) = <<>> \/ NonAdmin(Identity(r)[1])
       [] s = 400 -> ~Truthy(Get(bodyOf(r), "quoteId"))
       [] s = 404 -> Cardinality({q \in quotes :
                                    q.public_id = Get(bodyOf(r), "quoteId")}) # 1}

\* the precedence of the checks
Precedence == <<405, 401, 403, 400, 404>>

\* the first of the failing checks F in the precedence
First(F) ==
  Precedence[CHOOSE k \in DOMAIN Precedence :
               /\ Precedence[k] \in F
               /\ \A j \in 1..(k - 1) : Precedence[j] \notin F]

\* the calls an invocation answered with status s has made
CallsBefore(s) ==
  CASE s \in {405} -> <<>>
    [] s = 401 -> <<"auth.getUser">>
    [] s \in {403, 400} -> <<"auth.getUser", "profiles.select">>
    [] s = 404 -> <<"auth.getUser", "profiles.select", "quotes.select">>

\* no call of invocation i was rejected or failed by the collaborator itself
NoFault(i) ==
  \A k \in DOMAIN log[i] : log[i][k].res \notin {"throw", "store failure"}

\* C19: an invocation whose request fails one or more of the checks, and
\* whose collaborators all answered, is answered with the status of the first
\* failing check in the order 405, 401, 403, 400, 404, having made only the
\* calls that precede that check: none for 405 and for a missing credential.
FirstFailingCheckAnswers ==
  \A i \in Invs :
    (Done(i) /\ NoFault(i) /\ FailingChecks(req[i]) # {}) =>
      LET s == First(FailingChecks(req[i]))
      IN  /\ Status(i) = s
          /\ [k \in DOMAIN log[i] |-> log[i][k].op] \in
               {CallsBefore(s)} \cup (IF s = 401 THEN {<<>>} ELSE {})
          /\ (s = 401 /\ log[i] = <<>>) <=>
               (req[i].method = "POST" /\ FalsyStr(req[i].headers, "authorization"))

\* C19 witness: a caller who is not an administrator sent a body without
\* quoteId, failing the 403, 400 and 404 checks, and was answered 403.
ForbiddenBeforeBadRequest ==
  \E i \in Invs :
    /\ Done(i)
    /\ NoFault(i)
    /\ FailingChecks(req[i]) = {403, 400, 404}
    /\ Status(i) = 403

\* the status codes of lines 48, 53, 57, 66, 69, 76, 92, 122 and 125
StatusCodes == {200, 400, 401, 403, 404, 405, 500}

\* invocation i has responded at most once and has made each collaborator
\* call at most once (the fetch once per logo)
AtMostOnce(i) ==
  /\ Len(resp[i]) <= 1
  /\ \A k \in DOMAIN resp[i] : resp[i][k].status \in StatusCodes
  /\ \A j, k \in DOMAIN log[i] :
       (j < k /\ log[i][j].op = log[i][k].op) =>
         (log[i][j].op = "fetch" /\ Count(i, "fetch") = 2)
  /\ pc[i] = "done" <=> (Len(resp[i]) = 1 /\ req[i] # NoReq)

\* C20: when every collaborator call settles, an invocation that has received
\* a request eventually is done with exactly one response written; at every
\* moment it has written at most one response, of status 200, 400, 401, 403,
\* 404, 405 or 500, and has made no collaborator call twice.
EveryInvocationTerminates ==
  /\ [](\A i \in Invs : AtMostOnce(i))
  /\ \A i \in Invs : (pc[i] \notin {"idle", "done"}) ~> Done(i)

\* C20 witness: the second call served, having gone through every stage up
\* to a status update that rejected, is done with its one response, a 500.
SecondCallTerminated ==
  \E i \in Invs :
    /\ calls = 2
    /\ Done(i)
    /\ Len(resp[i]) = 1
    /\ LastCall(i, "quotes.update", "throw")
    /\ Status(i) = 500

====
